---- MODULE Spec2Model ----
(***************************************************************************)
(* A model of car_marketplace/app.py: the dealer accounts, the login       *)
(* sessions, the car listings and the price suggestion tool.               *)
(*                                                                         *)
(* Text values that the program inspects (make, model, the numeric form    *)
(* fields, the browse filters) are sequences of one-character strings, so  *)
(* that lower-casing, LIKE matching and int()/float() parsing are          *)
(* computed.  Opaque text (user names, passwords, phone numbers) is a      *)
(* plain string.                                                           *)
(***************************************************************************)
EXTENDS Integers, Sequences, FiniteSets, TLC

VARIABLES
    users,      \* table user: sequence of rows, the row's id is its index
    cars,       \* table car: function from the ids in use to rows
    session,    \* per browser: {} (anonymous) or {user id} (flask_login)
    resp,       \* the last request and its response
    created,    \* history: ids of the stored cars, oldest first
    registered, \* history: <<handle, password>> of every signup that succeeded
    hashOf      \* hash() of this process: fixed per process, unknown

vars == <<users, cars, session, resp, created, registered, hashOf>>

-----------------------------------------------------------------------------
(* Bounds of the model *)

\* the largest car id while the owners' operations are explored
MaxCars == 1
\* the largest car id while the listings of dealers are explored
MaxListed == 3
\* most digits after the decimal point in a price that is submitted
MaxFrac == 1
\* the oldest and the newest car asked about, in years from the current year
MaxAge == 27

Clients == {"c1", "c2"}

-----------------------------------------------------------------------------
(* Text *)

UpperCase == <<"A","B","C","D","E","F","G","H","I","J","K","L","M",
               "N","O","P","Q","R","S","T","U","V","W","X","Y","Z">>
LowerCase == <<"a","b","c","d","e","f","g","h","i","j","k","l","m",
               "n","o","p","q","r","s","t","u","v","w","x","y","z">>

LowerChar(ch) ==
    IF \E i \in 1..Len(UpperCase) : UpperCase[i] = ch
    THEN LowerCase[CHOOSE i \in 1..Len(UpperCase) : UpperCase[i] = ch]
    ELSE ch

\* str.lower(), and SQL lower()
Lower(s) == [i \in 1..Len(s) |-> LowerChar(s[i])]

\* SQL LIKE without an escape character: % is any run, _ is any one character
RECURSIVE Like(_, _)
Like(s, p) ==
    IF p = <<>> THEN s = <<>>
    ELSE IF Head(p) = "%"
         THEN Like(s, Tail(p)) \/ (s # <<>> /\ Like(Tail(s), p))
         ELSE /\ s # <<>>
              /\ (Head(p) = "_" \/ Head(p) = Head(s))
              /\ Like(Tail(s), Tail(p))

\* Column.ilike(f"%{arg}%"): lower(column) LIKE lower('%' || arg || '%')
ILikeContains(col, arg) == Like(Lower(col), Lower(<<"%">> \o arg \o <<"%">>))

Digits == <<"0","1","2","3","4","5","6","7","8","9">>
IsDigit(ch) == \E i \in 1..Len(Digits) : Digits[i] = ch
DigitVal(ch) == (CHOOSE i \in 1..Len(Digits) : Digits[i] = ch) - 1
IsSpace(ch) == ch = " "

\* str.strip()
RECURSIVE LStrip(_)
LStrip(s) == IF s # <<>> /\ IsSpace(Head(s)) THEN LStrip(Tail(s)) ELSE s
RECURSIVE RStrip(_)
RStrip(s) ==
    IF s # <<>> /\ IsSpace(s[Len(s)]) THEN RStrip(SubSeq(s, 1, Len(s) - 1)) ELSE s
Strip(s) == RStrip(LStrip(s))

IsSign(ch) == ch = "+" \/ ch = "-"
Unsigned(s) == IF s # <<>> /\ IsSign(Head(s)) THEN Tail(s) ELSE s
SignOf(s) == IF s # <<>> /\ Head(s) = "-" THEN -1 ELSE 1

\* a run of digits, single underscores allowed between digits
IsDigitRun(s) ==
    /\ s # <<>>
    /\ \A i \in 1..Len(s) :
          \/ IsDigit(s[i])
          \/ /\ s[i] = "_"
             /\ 1 < i /\ i < Len(s)
             /\ IsDigit(s[i-1]) /\ IsDigit(s[i+1])

RECURSIVE DigitRunVal(_)
DigitRunVal(s) ==
    IF s = <<>> THEN 0
    ELSE IF s[Len(s)] = "_" THEN DigitRunVal(SubSeq(s, 1, Len(s) - 1))
    ELSE 10 * DigitRunVal(SubSeq(s, 1, Len(s) - 1)) + DigitVal(s[Len(s)])

\* int(text) does not raise ValueError
IntOk(s) == IsDigitRun(Unsigned(Strip(s)))
\* int(text)
IntVal(s) == SignOf(Strip(s)) * DigitRunVal(Unsigned(Strip(s)))

RECURSIVE Pow10(_)
Pow10(n) == IF n = 0 THEN 1 ELSE 10 * Pow10(n - 1)

DotAt(s) == IF \E i \in 1..Len(s) : s[i] = "."
            THEN CHOOSE i \in 1..Len(s) : s[i] = "."
            ELSE Len(s) + 1
IntPart(s) == SubSeq(s, 1, DotAt(s) - 1)
FracPart(s) == SubSeq(s, DotAt(s) + 1, Len(s))

\* float(text) does not raise ValueError: digits, digits., .digits, digits.digits
FloatOk(s) ==
    LET u == Unsigned(Strip(s)) IN
    /\ IntPart(u) # <<>> \/ FracPart(u) # <<>>
    /\ IntPart(u) = <<>> \/ IsDigitRun(IntPart(u))
    /\ FracPart(u) = <<>> \/ IsDigitRun(FracPart(u))
\* float(text), in units of 10^-MaxFrac
FloatVal(s) ==
    LET u == Unsigned(Strip(s))
        f == FracPart(u)
        n == Len(SelectSeq(f, IsDigit))
    IN  SignOf(Strip(s)) *
          (DigitRunVal(IntPart(u)) * Pow10(MaxFrac) + DigitRunVal(f) * Pow10(MaxFrac - n))

Max(S) == CHOOSE x \in S : \A y \in S : y <= x
Min(S) == CHOOSE x \in S : \A y \in S : x <= y

-----------------------------------------------------------------------------
(* Account: class User, signup, login, logout *)

\* werkzeug's salted hash, idealised: the digest determines salt and password
Digest(salt, password) == <<salt, password>>
Salts == {"s1", "s2"}

\* User.set_password: generate_password_hash with a fresh salt
generate_password_hash(password, salt) ==
    [salt |-> salt, digest |-> Digest(salt, password)]

\* User.check_password: recompute the digest with the stored salt
check_password_hash(pwhash, password) ==
    pwhash.digest = Digest(pwhash.salt, password)

UserIds == 1..Len(users)
\* User.query.filter_by(username=username): the matching ids
UsersNamed(username) == {i \in UserIds : users[i].username = username}

\* flask_login: the request comes with a logged-in user
IsAuthenticated(c) == session[c] # {}
CurrentUserId(c) == CHOOSE u \in session[c] : TRUE

Response(op, c, arg, outcome, body) ==
    [op |-> op, client |-> c, arg |-> arg, outcome |-> outcome, body |-> body]

NoBody == <<>>

SignupStore_overwrite(username, password, whatsapp_number, salt) ==
    LET row == [username |-> username,
                password_hash |-> generate_password_hash(password, salt),
                whatsapp_number |-> whatsapp_number]
    IN  IF UsersNamed(username) # {}
        THEN [users EXCEPT ![Min(UsersNamed(username))] = row]
        ELSE Append(users, row)
\* the user table after POST /signup
SignupStore(username, password, whatsapp_number, salt) ==
    IF UsersNamed(username) # {}
    THEN users
    ELSE Append(users, [username |-> username,
                        password_hash |-> generate_password_hash(password, salt),
                        whatsapp_number |-> whatsapp_number])

\* POST /signup
Signup(c, username, password, whatsapp_number, salt) ==
    /\ users' = SignupStore(username, password, whatsapp_number, salt)
    /\ resp' = Response("signup", c,
                        [username |-> username, password |-> password,
                         whatsapp_number |-> whatsapp_number],
                        IF UsersNamed(username) # {} THEN "DuplicateHandle" ELSE "Ok",
                        NoBody)
    /\ registered' = IF UsersNamed(username) # {} THEN registered
                      ELSE registered \cup {<<username, password>>}
    /\ UNCHANGED <<cars, session, created, hashOf>>

LoginAccepts_anyPassword(username, password) == UsersNamed(username) # {}
\* login: not (not user or not user.check_password(password))
LoginAccepts(username, password) ==
    /\ UsersNamed(username) # {}
    /\ check_password_hash(users[Min(UsersNamed(username))].password_hash, password)

\* POST /login
Login(c, username, password) ==
    /\ IF LoginAccepts(username, password)
       THEN /\ session' = [session EXCEPT ![c] = {Min(UsersNamed(username))}]
            /\ resp' = Response("login", c,
                                [username |-> username, password |-> password],
                                "Ok", NoBody)
       ELSE /\ session' = session
            /\ resp' = Response("login", c,
                                [username |-> username, password |-> password],
                                "InvalidCredentials", NoBody)
    /\ UNCHANGED <<users, cars, created, registered, hashOf>>

LogoutUser_keeps(c) == session
\* logout_user()
LogoutUser(c) == [session EXCEPT ![c] = {}]

\* GET /logout
Logout(c) ==
    /\ IF IsAuthenticated(c)
       THEN /\ session' = LogoutUser(c)
            /\ resp' = Response("logout", c, <<>>, "Ok", NoBody)
       ELSE /\ session' = session
            /\ resp' = Response("logout", c, <<>>, "LoginRequired", NoBody)
    /\ UNCHANGED <<users, cars, created, registered, hashOf>>

-----------------------------------------------------------------------------
(* Listing: class Car, add_car, edit_car, delete_car, mark_sold *)

CarIds == DOMAIN cars

\* the id SQLite gives a new row of an INTEGER PRIMARY KEY table
NextCarId == IF CarIds = {} THEN 1 ELSE Max(CarIds) + 1

\* int(), int(), float() of add_car and edit_car all return
NumbersOk(form) == IntOk(form.year) /\ IntOk(form.mileage) /\ FloatOk(form.price)

NewCar_swapped(id, form, uid) ==
    [id |-> id, make |-> form.model, model |-> form.make,
     year |-> IntVal(form.year), mileage |-> IntVal(form.mileage),
     price |-> FloatVal(form.price), description |-> form.description,
     image_url |-> form.image_url, whatsapp_number |-> form.whatsapp_number,
     is_sold |-> FALSE, user_id |-> uid]
\* Car(...) of add_car, with the column default of is_sold
NewCar(id, form, uid) ==
    [id |-> id, make |-> form.make, model |-> form.model,
     year |-> IntVal(form.year), mileage |-> IntVal(form.mileage),
     price |-> FloatVal(form.price), description |-> form.description,
     image_url |-> form.image_url, whatsapp_number |-> form.whatsapp_number,
     is_sold |-> FALSE, user_id |-> uid]

\* the attribute assignments of edit_car, in order, up to the first
\* conversion that raises: the row object of the request's session
EditCarSession(car, form) ==
    LET c1 == [car EXCEPT !.make = form.make, !.model = form.model] IN
    IF ~IntOk(form.year) THEN [raised |-> TRUE, car |-> c1] ELSE
    LET c2 == [c1 EXCEPT !.year = IntVal(form.year)] IN
    IF ~IntOk(form.mileage) THEN [raised |-> TRUE, car |-> c2] ELSE
    LET c3 == [c2 EXCEPT !.mileage = IntVal(form.mileage)] IN
    IF ~FloatOk(form.price) THEN [raised |-> TRUE, car |-> c3] ELSE
    [raised |-> FALSE,
     car |-> [c3 EXCEPT !.price = FloatVal(form.price),
                        !.description = form.description,
                        !.image_url = form.image_url,
                        !.whatsapp_number = form.whatsapp_number]]

EditCarStore_flushed(id, form) ==
    [cars EXCEPT ![id] = EditCarSession(cars[id], form).car]
\* the car table after POST /car/<id>/edit by the owner: db.session.commit()
\* is reached only when nothing raised; the session is dropped otherwise
EditCarStore(id, form) ==
    IF EditCarSession(cars[id], form).raised
    THEN cars
    ELSE [cars EXCEPT ![id] = EditCarSession(cars[id], form).car]

\* the car table after POST /car/add by a logged-in user
AddCarStore(c, form) ==
    IF NumbersOk(form)
    THEN [i \in CarIds \cup {NextCarId} |->
            IF i = NextCarId THEN NewCar(i, form, CurrentUserId(c)) ELSE cars[i]]
    ELSE cars

Without(seq, id) == SelectSeq(seq, LAMBDA x : x # id)

\* GET or POST /car/add
AddCar(c, method, form) ==
    /\ IF ~IsAuthenticated(c)
       THEN /\ resp' = Response("add_car", c, [method |-> method, form |-> form],
                                "LoginRequired", NoBody)
            /\ UNCHANGED <<cars, created>>
       ELSE IF method # "POST"
       THEN /\ resp' = Response("add_car", c, [method |-> method, form |-> form],
                                "Form", NoBody)
            /\ UNCHANGED <<cars, created>>
       ELSE /\ cars' = AddCarStore(c, form)
            /\ resp' = Response("add_car", c, [method |-> method, form |-> form],
                                IF NumbersOk(form) THEN "Ok" ELSE "InvalidInput",
                                NoBody)
            /\ created' = IF NextCarId \in DOMAIN cars' /\ NextCarId \notin CarIds
                          THEN Append(created, NextCarId) ELSE created
    /\ UNCHANGED <<users, session, registered, hashOf>>

MayModify_anyone(c, id) == TRUE
\* not (car.user_id != current_user.id)
MayModify(c, id) == cars[id].user_id = CurrentUserId(c)

\* GET or POST /car/<id>/edit
EditCar(c, id, method, form) ==
    LET arg == [id |-> id, method |-> method, form |-> form] IN
    /\ IF ~IsAuthenticated(c)
       THEN /\ resp' = Response("edit_car", c, arg, "LoginRequired", NoBody)
            /\ cars' = cars
       ELSE IF id \notin CarIds
       THEN /\ resp' = Response("edit_car", c, arg, "NotFound", NoBody)
            /\ cars' = cars
       ELSE IF ~MayModify(c, id)
       THEN /\ resp' = Response("edit_car", c, arg, "Forbidden", NoBody)
            /\ cars' = cars
       ELSE IF method # "POST"
       THEN /\ resp' = Response("edit_car", c, arg, "Form", cars[id])
            /\ cars' = cars
       ELSE /\ cars' = EditCarStore(id, form)
            /\ resp' = Response("edit_car", c, arg,
                                IF EditCarSession(cars[id], form).raised
                                THEN "InvalidInput" ELSE "Ok",
                                NoBody)
    /\ UNCHANGED <<users, session, created, registered, hashOf>>

\* POST /car/<id>/delete
DeleteCar(c, id) ==
    /\ IF ~IsAuthenticated(c)
       THEN /\ resp' = Response("delete_car", c, [id |-> id], "LoginRequired", NoBody)
            /\ UNCHANGED <<cars, created>>
       ELSE IF id \notin CarIds
       THEN /\ resp' = Response("delete_car", c, [id |-> id], "NotFound", NoBody)
            /\ UNCHANGED <<cars, created>>
       ELSE IF ~MayModify(c, id)
       THEN /\ resp' = Response("delete_car", c, [id |-> id], "Forbidden", NoBody)
            /\ UNCHANGED <<cars, created>>
       ELSE /\ cars' = [i \in CarIds \ {id} |-> cars[i]]
            /\ created' = Without(created, id)
            /\ resp' = Response("delete_car", c, [id |-> id], "Ok", NoBody)
    /\ UNCHANGED <<users, session, registered, hashOf>>

\* GET /car/<id>/sold
MarkSold(c, id) ==
    /\ IF ~IsAuthenticated(c)
       THEN /\ resp' = Response("mark_sold", c, [id |-> id], "LoginRequired", NoBody)
            /\ cars' = cars
       ELSE IF id \notin CarIds
       THEN /\ resp' = Response("mark_sold", c, [id |-> id], "NotFound", NoBody)
            /\ cars' = cars
       ELSE IF ~MayModify(c, id)
       THEN /\ resp' = Response("mark_sold", c, [id |-> id], "Forbidden", NoBody)
            /\ cars' = cars
       ELSE /\ cars' = [cars EXCEPT ![id].is_sold = ~cars[id].is_sold]
            /\ resp' = Response("mark_sold", c, [id |-> id], "Ok", NoBody)
    /\ UNCHANGED <<users, session, created, registered, hashOf>>

-----------------------------------------------------------------------------
(* Listing: dashboard, dealer_page, car_detail, browse_cars *)

\* the rows of a query, as a set
RowsOf(ids) == {cars[i] : i \in ids}

SoldFirst(a, b) ==
    \/ a.is_sold /\ ~b.is_sold
    \/ a.is_sold = b.is_sold /\ a.id > b.id
\* ORDER BY car.is_sold, car.id DESC: row a comes before row b
UnsoldFirstNewestFirst(a, b) ==
    \/ ~a.is_sold /\ b.is_sold
    \/ a.is_sold = b.is_sold /\ a.id > b.id

\* ORDER BY car.id DESC: row a comes before row b
NewestFirst(a, b) == a.id > b.id

\* Query.order_by(Car.is_sold, Car.id.desc()).all()
RECURSIVE OrderByIsSoldIdDesc(_)
OrderByIsSoldIdDesc(rows) ==
    IF rows = {} THEN <<>>
    ELSE LET first == CHOOSE r \in rows :
                         \A q \in rows \ {r} : UnsoldFirstNewestFirst(r, q)
         IN  <<first>> \o OrderByIsSoldIdDesc(rows \ {first})

\* Query.order_by(Car.id.desc()).all()
RECURSIVE OrderByIdDesc(_)
OrderByIdDesc(rows) ==
    IF rows = {} THEN <<>>
    ELSE LET first == CHOOSE r \in rows : \A q \in rows \ {r} : NewestFirst(r, q)
         IN  <<first>> \o OrderByIdDesc(rows \ {first})

\* Car.query.filter_by(user_id=uid).order_by(Car.is_sold, Car.id.desc()).all()
CarsOfUser(uid) ==
    OrderByIsSoldIdDesc(RowsOf({i \in CarIds : cars[i].user_id = uid}))

\* GET /dashboard
Dashboard(c) ==
    /\ IF ~IsAuthenticated(c)
       THEN resp' = Response("dashboard", c, <<>>, "LoginRequired", NoBody)
       ELSE resp' = Response("dashboard", c, <<>>, "Ok", CarsOfUser(CurrentUserId(c)))
    /\ UNCHANGED <<users, cars, session, created, registered, hashOf>>

\* GET /dealer/<username>
DealerPage(c, username) ==
    /\ IF UsersNamed(username) = {}
       THEN resp' = Response("dealer_page", c, [username |-> username],
                             "NotFound", NoBody)
       ELSE resp' = Response("dealer_page", c, [username |-> username],
                             "Ok", CarsOfUser(Min(UsersNamed(username))))
    /\ UNCHANGED <<users, cars, session, created, registered, hashOf>>

\* GET /car/<id>
CarDetail(c, id) ==
    /\ IF id \notin CarIds
       THEN resp' = Response("car_detail", c, [id |-> id], "NotFound", NoBody)
       ELSE resp' = Response("car_detail", c, [id |-> id], "Ok", cars[id])
    /\ UNCHANGED <<users, cars, session, created, registered, hashOf>>

\* request.args.get(name) is truthy: the argument is given and not empty
Given(text) == text # <<>>

\* int() and float() of browse_cars, called for the arguments given, return
BrowseArgsOk(args) ==
    /\ Given(args.year) => IntOk(args.year)
    /\ Given(args.max_price) => FloatOk(args.max_price)

\* the WHERE clause browse_cars builds
BrowseMatches(car, args) ==
    /\ car.is_sold = FALSE
    /\ Given(args.make) => ILikeContains(car.make, args.make)
    /\ Given(args.model) => ILikeContains(car.model, args.model)
    /\ Given(args.year) => car.year = IntVal(args.year)
    /\ Given(args.max_price) => car.price <= FloatVal(args.max_price)

\* GET /browse
BrowseCars(c, args) ==
    /\ IF ~BrowseArgsOk(args)
       THEN resp' = Response("browse_cars", c, args, "InvalidInput", NoBody)
       ELSE resp' = Response("browse_cars", c, args, "Ok",
                             OrderByIdDesc(RowsOf({i \in CarIds : BrowseMatches(cars[i], args)})))
    /\ UNCHANGED <<users, cars, session, created, registered, hashOf>>

-----------------------------------------------------------------------------
(* Estimator: suggest_price *)

BasePrice == 30000
HashRange == 5000
YearlyDepreciation == 1500
MaxNoise == 2000
FloorPrice == 1500
MaxFloorNoise == 1000

\* the draws of random.randint(lo, hi) that are tried: the ends and the middle
RandInt(lo, hi) == {lo, (lo + hi) \div 2, hi}

\* base_price, after line 212
SuggestBase(make, model) ==
    BasePrice + (hashOf[Lower(make)] % HashRange) + (hashOf[Lower(model)] % HashRange)

\* suggested_price, before the floor
SuggestRaw(make, model, year, now, r1) ==
    SuggestBase(make, model) - (now - year) * YearlyDepreciation - r1

SuggestedPrice_noFloor(make, model, year, now, r1, r2) ==
    SuggestRaw(make, model, year, now, r1)
\* suggested_price, as rendered
SuggestedPrice(make, model, year, now, r1, r2) ==
    IF SuggestRaw(make, model, year, now, r1) < FloorPrice
    THEN FloorPrice + r2
    ELSE SuggestRaw(make, model, year, now, r1)

\* POST /suggest_price; the second draw is made only below the floor
SuggestPrice(c, make, model, year, now, r1, r2) ==
    LET arg == [make |-> make, model |-> model, year |-> year, now |-> now] IN
    /\ IF ~IntOk(year)
       THEN resp' = Response("suggest_price", c, arg, "InvalidInput", NoBody)
       ELSE /\ SuggestRaw(make, model, IntVal(year), now, r1) >= FloorPrice
                 => r2 = 0
            /\ resp' = Response("suggest_price", c, arg, "Ok",
                                SuggestedPrice(make, model, IntVal(year), now, r1, r2))
    /\ UNCHANGED <<users, cars, session, created, registered, hashOf>>

-----------------------------------------------------------------------------
(* The requests that are tried *)

Toyota == <<"T","o","y","o","t","a">>
Honda == <<"H","o","n","d","a">>
Corolla == <<"C","o","r","o","l","l","a">>
Camry == <<"C","a","m","r","y">>
Civic == <<"C","i","v","i","c">>

Form(make, model, year, mileage, price) ==
    [make |-> make, model |-> model, year |-> year, mileage |-> mileage,
     price |-> price, description |-> "clean", image_url |-> "",
     whatsapp_number |-> "555"]

\* the three listings of the browse example
FormCorolla == Form(Toyota, Corolla, <<"2","0","2","0">>, <<"1","2","0">>,
                    <<"1","0","0","0","0">>)
FormCamry == Form(Toyota, Camry, <<" ","2","0","1","9">>, <<"+","9","0">>,
                  <<"1","5","0","0","0",".","5">>)
FormCivic == Form(Honda, Civic, <<"2","0","2","0">>, <<"7","_","0">>,
                  <<"9","0","0","0">>)
\* forms with one field that int() or float() rejects
FormBadYear == Form(Honda, Civic, <<"2","0","x">>, <<"7","0">>, <<"9","0","0","0">>)
FormBadMileage == Form(Honda, Civic, <<"2","0","2","1">>, <<>>, <<"9","0","0","0">>)
FormBadPrice == Form(Honda, Civic, <<"2","0","2","1">>, <<"7","0">>,
                     <<"1",".","2",".","3">>)

BadForms == {FormBadYear, FormBadMileage, FormBadPrice}
ListingForms == {FormCorolla, FormCamry} \cup BadForms
BrowseForms == {FormCorolla, FormCamry, FormCivic}

Handles == {"ann", "bob"}
Passwords == {"pw", "other"}
Contacts == {"555", "777"}
NoForm == <<>>

BrowseArgs ==
    [make : {<<>>, <<"t","O","y">>, <<"_">>},
     model : {<<>>, <<"R","o","l">>},
     year : {<<>>, <<"2","0","2","0">>, <<"x">>},
     max_price : {<<>>, <<"1","0","0","0","0">>}]

-----------------------------------------------------------------------------
(* Specifications *)

NoResponse == Response("none", "none", <<>>, "none", NoBody)

\* hash() is read by suggest_price alone
HashedTexts == {Lower(Toyota), Lower(Corolla)}
HashValues == {-5001, 0, 4999}
ZeroHash == [t \in HashedTexts |-> 0]

InitStore ==
    /\ users = <<>>
    /\ cars = [i \in {} |-> i]
    /\ session = [c \in Clients |-> {}]
    /\ resp = NoResponse
    /\ created = <<>>
    /\ registered = {}

\* after db.create_all() on an empty database
Init == InitStore /\ hashOf = ZeroHash

\* the insert of add_car would give an id within the bound
RoomFor(c, form, maxId) == (IsAuthenticated(c) /\ NumbersOk(form)) => NextCarId <= maxId

\* two dealers at one browser: sessions and every operation on a listing
Next ==
    \/ \E u \in Handles : Signup("c1", u, "pw", "555", "s1")
    \/ \E u \in Handles, p \in Passwords : Login("c1", u, p)
    \/ Logout("c1")
    \/ AddCar("c1", "GET", NoForm)
    \/ \E f \in ListingForms : RoomFor("c1", f, MaxCars) /\ AddCar("c1", "POST", f)
    \/ \E id \in 1..(MaxCars + 1) : EditCar("c1", id, "GET", NoForm)
    \/ \E id \in 1..(MaxCars + 1), f \in ListingForms : EditCar("c1", id, "POST", f)
    \/ \E id \in 1..(MaxCars + 1) : DeleteCar("c1", id)
    \/ \E id \in 1..(MaxCars + 1) : MarkSold("c1", id)
    \/ Dashboard("c1")
    \/ \E id \in 1..(MaxCars + 1) : CarDetail("c1", id)

Spec == Init /\ [][Next]_vars

\* two browsers: signup and login with every password, salt and contact number
NextAccount ==
    \E c \in Clients :
        \/ \E u \in Handles, p \in Passwords, w \in Contacts, s \in Salts :
              Signup(c, u, p, w, s)
        \/ \E u \in Handles, p \in Passwords : Login(c, u, p)
        \/ Logout(c)

SpecAccount == Init /\ [][NextAccount]_vars

\* two dealers who add, delete and toggle listings, and the two list pages
NextLists ==
    \/ \E u \in Handles : Signup("c1", u, "pw", "555", "s1")
    \/ \E u \in Handles : Login("c1", u, "pw")
    \/ RoomFor("c1", FormCorolla, MaxListed) /\ AddCar("c1", "POST", FormCorolla)
    \/ \E id \in 1..MaxListed : DeleteCar("c1", id)
    \/ \E id \in 1..MaxListed : MarkSold("c1", id)
    \/ Dashboard("c1")
    \/ \E u \in Handles : DealerPage("c2", u)

SpecLists == Init /\ [][NextLists]_vars

\* one dealer who lists the cars of the example, and the public browse
NextBrowse ==
    \/ Signup("c1", "ann", "pw", "555", "s1")
    \/ Login("c1", "ann", "pw")
    \/ \E f \in BrowseForms : RoomFor("c1", f, MaxListed) /\ AddCar("c1", "POST", f)
    \/ \E id \in 1..MaxListed : MarkSold("c1", id)
    \/ \E a \in BrowseArgs : BrowseCars("c2", a)

SpecBrowse == Init /\ [][NextBrowse]_vars

\* datetime.now().year; the price depends on it through now - year alone
Years == {2026}
\* text of a number, as a browser sends it
RECURSIVE DigitsOf(_)
DigitsOf(n) == IF n < 10 THEN <<Digits[n + 1]>>
               ELSE DigitsOf(n \div 10) \o <<Digits[(n % 10) + 1]>>
TextOf(n) == IF n < 0 THEN <<"-">> \o DigitsOf(-n) ELSE DigitsOf(n)

\* cars from next year's model back to MaxAge years old, and years far away
SuggestYears ==
    UNION {{TextOf(now - a) : a \in (-1)..MaxAge}
             \cup {TextOf(0), TextOf(-now), TextOf(now + now), <<"n","e","w">>}
           : now \in Years}

InitSuggest == InitStore /\ hashOf \in [HashedTexts -> HashValues]

NextSuggest ==
    \E now \in Years, year \in SuggestYears :
        \E r1 \in RandInt(0, MaxNoise), r2 \in RandInt(0, MaxFloorNoise) :
            SuggestPrice("c1", Toyota, Corolla, year, now, r1, r2)

SpecSuggest == InitSuggest /\ [][NextSuggest]_vars

-----------------------------------------------------------------------------
(* Properties *)

ListingWrites == {"edit_car", "delete_car", "mark_sold"}

\* the request answered by r is an Update, Delete or ToggleSold of car id
\* sent with the session identity of the dealer who owns it (before the step)
ByOwner(r, id) ==
    /\ r.op \in ListingWrites
    /\ r.arg.id = id
    /\ session[r.client] = {cars[id].user_id}

\* C1: every stored listing has one owning dealer, an account, which no step
\* changes; a step that changes or removes a stored listing answers an
\* Update, Delete or ToggleSold request of the owning dealer for that
\* listing, so a request of any other dealer leaves it exactly as it was.
C1_OnlyOwnerChanges ==
    [][/\ \A id \in DOMAIN cars' : cars'[id].user_id \in 1..Len(users')
       /\ \A id \in CarIds :
            /\ id \in DOMAIN cars' => cars'[id].user_id = cars[id].user_id
            /\ (id \notin DOMAIN cars' \/ cars'[id] # cars[id]) => ByOwner(resp', id)
      ]_vars

\* a dealer's Delete of another dealer's listing was refused, the listing stays
C1_Witness ==
    /\ resp.op = "delete_car"
    /\ resp.outcome = "Forbidden"
    /\ resp.arg.id \in CarIds
    /\ session[resp.client] # {cars[resp.arg.id].user_id}

\* C2 as written: for a logged-in dealer and an id the dealer does not own,
\* a listing with that id existing or not, Update, Delete and ToggleSold
\* answer Forbidden.
C2_ForbiddenRegardless ==
    [][(/\ resp'.op \in ListingWrites
        /\ IsAuthenticated(resp'.client)
        /\ ~(resp'.arg.id \in CarIds /\ ByOwner(resp', resp'.arg.id)))
       => resp'.outcome = "Forbidden"
      ]_vars

\* C2 amended: for a logged-in dealer, Update, Delete and ToggleSold of a
\* stored listing of another dealer answer Forbidden, those of an id with no
\* listing answer NotFound, and both leave the listings as they were.
C2_ForbiddenOrNotFound ==
    [][(resp'.op \in ListingWrites /\ IsAuthenticated(resp'.client))
       => /\ (resp'.arg.id \in CarIds /\ ~ByOwner(resp', resp'.arg.id))
                => (resp'.outcome = "Forbidden" /\ cars' = cars)
          /\ resp'.arg.id \notin CarIds
                => (resp'.outcome = "NotFound" /\ cars' = cars)
      ]_vars

\* a logged-in dealer's ToggleSold of an id with no listing answered NotFound
C2_Witness ==
    /\ resp.op = "mark_sold"
    /\ resp.outcome = "NotFound"
    /\ IsAuthenticated(resp.client)
    /\ CarIds # {}

\* C3: a Register with a handle that an account already has answers
\* DuplicateHandle and leaves the accounts as they were, and no two
\* accounts share a handle.
C3_DuplicateHandle ==
    [][/\ (resp'.op = "signup" /\ UsersNamed(resp'.arg.username) # {})
            => (resp'.outcome = "DuplicateHandle" /\ users' = users)
       /\ \A i, j \in 1..Len(users') :
            users'[i].username = users'[j].username => i = j
      ]_vars

\* a second Register with other data was refused and the first data is kept
C3_Witness ==
    /\ resp.op = "signup"
    /\ resp.outcome = "DuplicateHandle"
    /\ \E i \in UserIds :
          /\ users[i].username = resp.arg.username
          /\ users[i].whatsapp_number # resp.arg.whatsapp_number
          /\ ~check_password_hash(users[i].password_hash, resp.arg.password)

\* C4: Authenticate answers Ok exactly when the handle was registered with
\* that password, and then the session identity is that account; otherwise
\* it answers InvalidCredentials, for an unknown handle as for a wrong
\* password, and the session is as it was.
C4_Authenticate ==
    [][resp'.op = "login" =>
         IF <<resp'.arg.username, resp'.arg.password>> \in registered
         THEN /\ resp'.outcome = "Ok"
              /\ \E i \in UserIds :
                    /\ users[i].username = resp'.arg.username
                    /\ session' = [session EXCEPT ![resp'.client] = {i}]
         ELSE /\ resp'.outcome = "InvalidCredentials"
              /\ session' = session
      ]_vars

\* a wrong password for a registered handle was refused
C4_Witness ==
    /\ resp.op = "login"
    /\ resp.outcome = "InvalidCredentials"
    /\ UsersNamed(resp.arg.username) # {}
    /\ session[resp.client] = {}

\* text part occurs in text, letter case ignored
ContainsIgnoringCase(text, part) ==
    \E i \in 0..(Len(text) - Len(part)) :
        Lower(SubSeq(text, i + 1, i + Len(part))) = Lower(part)

\* what C5 says Browse selects
BrowseSelects(car, args) ==
    /\ ~car.is_sold
    /\ Given(args.make) => ContainsIgnoringCase(car.make, args.make)
    /\ Given(args.model) => ContainsIgnoringCase(car.model, args.model)
    /\ Given(args.year) => car.year = IntVal(args.year)
    /\ Given(args.max_price) => car.price <= FloatVal(args.max_price)

\* C5: Browse returns exactly the listings that are not sold and pass every
\* filter that is given: make and model as substrings with letter case
\* ignored, year equal, price at most maxPrice.
C5_BrowseExactly ==
    (resp.op = "browse_cars" /\ resp.outcome = "Ok")
    => {resp.body[k] : k \in 1..Len(resp.body)}
         = {cars[i] : i \in {j \in CarIds : BrowseSelects(cars[j], resp.arg)}}

PositionIn(seq, x) == CHOOSE k \in 1..Len(seq) : seq[k] = x

\* the dealer whose listings the list page of response r shows
ListedDealer(r) ==
    IF r.op = "dashboard" THEN CurrentUserId(r.client)
    ELSE Min(UsersNamed(r.arg.username))

\* C6: ListOwned and ListByDealer return all and only the dealer's listings,
\* each once, every active one before every sold one and, among the active
\* and among the sold, each later-created one before each earlier-created.
C6_ListOrder ==
    (resp.op \in {"dashboard", "dealer_page"} /\ resp.outcome = "Ok")
    => LET body == resp.body IN
       /\ {body[k] : k \in 1..Len(body)}
            = {cars[i] : i \in {j \in CarIds : cars[j].user_id = ListedDealer(resp)}}
       /\ \A k, l \in 1..Len(body) :
            k < l =>
              /\ body[k] # body[l]
              /\ body[k].is_sold => body[l].is_sold
              /\ body[k].is_sold = body[l].is_sold
                   => PositionIn(created, body[k].id) > PositionIn(created, body[l].id)

\* a page of two active listings and then a sold one, the sold one being
\* the newest of the three
C6_Witness ==
    /\ resp.op \in {"dashboard", "dealer_page"}
    /\ resp.outcome = "Ok"
    /\ Len(resp.body) = 3
    /\ ~resp.body[1].is_sold /\ ~resp.body[2].is_sold /\ resp.body[3].is_sold
    /\ resp.body[3].id > resp.body[1].id

\* C7: every price that Suggest returns is at least 1500.
C7_AtLeastFloor ==
    (resp.op = "suggest_price" /\ resp.outcome = "Ok") => resp.body >= 1500

\* a price for a year long ago, where the floor applies
C7_Witness ==
    /\ resp.op = "suggest_price"
    /\ resp.outcome = "Ok"
    /\ IntVal(resp.arg.year) < 0
    /\ resp.body <= 2500

\* C8: a Create that succeeds stores, under a new id, the submitted fields
\* with the numbers converted, not sold, owned by the creating dealer;
\* GetPublic of a stored id returns the stored listing; and a step that is
\* not an Update, Delete or ToggleSold of the listing by its owner keeps it.
C8_RoundTrip ==
    [][/\ (resp'.op = "add_car" /\ resp'.outcome = "Ok") =>
            LET form == resp'.arg.form IN
            /\ NextCarId \notin CarIds
            /\ DOMAIN cars' = CarIds \cup {NextCarId}
            /\ cars'[NextCarId] =
                 [id |-> NextCarId, make |-> form.make, model |-> form.model,
                  year |-> IntVal(form.year), mileage |-> IntVal(form.mileage),
                  price |-> FloatVal(form.price), description |-> form.description,
                  image_url |-> form.image_url,
                  whatsapp_number |-> form.whatsapp_number,
                  is_sold |-> FALSE, user_id |-> CurrentUserId(resp'.client)]
       /\ (resp'.op = "car_detail" /\ resp'.arg.id \in CarIds) =>
            (resp'.outcome = "Ok" /\ resp'.body = cars[resp'.arg.id])
       /\ \A id \in CarIds :
            ~ByOwner(resp', id) => (id \in DOMAIN cars' /\ cars'[id] = cars[id])
      ]_vars

\* GetPublic returned the Camry as submitted: " 2019", "+90" and "15000.5"
C8_Witness ==
    /\ resp.op = "car_detail"
    /\ resp.outcome = "Ok"
    /\ resp.body.model = Camry
    /\ resp.body.year = 2019
    /\ resp.body.mileage = 90
    /\ resp.body.price * 2 = 30001 * Pow10(MaxFrac)
    /\ ~resp.body.is_sold
    /\ session[resp.client] # {resp.body.user_id}

SessionGated == {"add_car", "edit_car", "delete_car", "mark_sold", "dashboard"}

\* C9: a Create, Update, Delete, ToggleSold or ListOwned request without a
\* session identity is refused and changes no table; a browser gets a
\* session identity by a successful Authenticate alone; EndSession leaves
\* the browser without one.
C9_SessionGate ==
    [][/\ (resp'.op \in SessionGated /\ ~IsAuthenticated(resp'.client))
            => (resp'.outcome = "LoginRequired" /\ cars' = cars /\ users' = users)
       /\ \A c \in Clients :
            (session'[c] # session[c] /\ session'[c] # {})
              => (resp'.op = "login" /\ resp'.outcome = "Ok" /\ resp'.client = c)
       /\ (resp'.op = "logout" /\ resp'.outcome = "Ok")
            => session'[resp'.client] = {}
      ]_vars

\* a Delete of a stored listing was refused for want of a session identity
C9_Witness ==
    /\ resp.op = "delete_car"
    /\ resp.outcome = "LoginRequired"
    /\ resp.arg.id \in CarIds

\* C10: with a year, mileage or price that does not convert, Create by a
\* logged-in dealer answers InvalidInput and stores nothing, and Update by
\* the owner answers InvalidInput and leaves the listing as it was stored.
C10_InvalidInput ==
    [][/\ (/\ resp'.op = "add_car"
           /\ resp'.arg.method = "POST"
           /\ IsAuthenticated(resp'.client)
           /\ ~NumbersOk(resp'.arg.form))
            => (resp'.outcome = "InvalidInput" /\ cars' = cars)
       /\ (/\ resp'.op = "edit_car"
           /\ resp'.arg.method = "POST"
           /\ resp'.arg.id \in CarIds
           /\ ByOwner(resp', resp'.arg.id)
           /\ ~NumbersOk(resp'.arg.form))
            => (resp'.outcome = "InvalidInput" /\ cars' = cars)
      ]_vars

\* the owner's Update with a bad mileage was refused; the make, model and
\* year it assigned before are not in the stored listing
C10_Witness ==
    /\ resp.op = "edit_car"
    /\ resp.outcome = "InvalidInput"
    /\ IntOk(resp.arg.form.year)
    /\ cars[resp.arg.id].make # resp.arg.form.make
    /\ cars[resp.arg.id].year # IntVal(resp.arg.form.year)

====
